---------------------------- MODULE Spec2Model ----------------------------
(***************************************************************************)
(* Model of the chat relay: the duplex (WebSocket) session controller      *)
(* handleRealtime, the pull handler handleChatRequest (both in             *)
(* src/public/chat.js) and the per-session message log ConversationDO      *)
(* (src/src/conversation_do.ts).                                           *)
(*                                                                         *)
(* One session and one duplex connection are modelled.  Every inbound      *)
(* frame starts its own run of the async "message" listener; a run is      *)
(* suspended at each await and the runs interleave there.  A step of the   *)
(* model is the code between two awaits of one run.                        *)
(***************************************************************************)
EXTENDS Integers, Sequences, FiniteSets, TLC

----------------------------------------------------------------------------
(* Bounds of the model *)

\* text frames (user_message / audio_end) accepted on the connection
MaxTurns == 2
\* binary frames accepted on the connection
MaxBinary == 2
\* other text frames (not JSON, JSON null, unknown type)
MaxOther == 1
\* calls to collaborators (session log, inference, stream) that fail
MaxFaults == 1
\* pull-transport requests
MaxPulls == 1
\* /append requests that reach the session log from outside the relay
MaxDirect == 2

----------------------------------------------------------------------------
(* Constants of the program *)

SYSTEM_PROMPT == "You are a helpful, friendly assistant. Provide concise and accurate responses."

Msg(r, c) == [role |-> r, content |-> c]

\* the transcript placeholder of an utterance of totalLen bytes
Placeholder(totalLen) ==
    "[Audio received " \o ToString(totalLen) \o " bytes] (transcription not configured)"

----------------------------------------------------------------------------
(* Inputs *)

\* contents of user_message frames
UserContents == {"Hi"}

\* byteLength of binary chunks
ChunkSizes == {2, 4}

\* An event payload as the frame decoder hands it to the delta extraction:
\* the literal [DONE], text that JSON.parse rejects, or a parsed object with
\* an optional "response" and an optional choices[0].delta.content.
EvDone == [kind |-> "done", hasResp |-> FALSE, response |-> "", hasChoice |-> FALSE, choice |-> ""]
EvBad == [kind |-> "bad", hasResp |-> FALSE, response |-> "", hasChoice |-> FALSE, choice |-> ""]
EvNoField == [kind |-> "json", hasResp |-> FALSE, response |-> "", hasChoice |-> FALSE, choice |-> ""]
EvResp(s) == [kind |-> "json", hasResp |-> TRUE, response |-> s, hasChoice |-> FALSE, choice |-> ""]
EvChoice(s) == [kind |-> "json", hasResp |-> FALSE, response |-> "", hasChoice |-> TRUE, choice |-> s]
EvBoth(s, t) == [kind |-> "json", hasResp |-> TRUE, response |-> s, hasChoice |-> TRUE, choice |-> t]

\* Inference streams: a stream is the sequence of reads, each read the
\* sequence of events completed by that chunk.
Streams ==
    { << <<EvResp("Hel"), EvResp("")>>, <<EvChoice("lo"), EvDone>> >>,
      << <<EvResp(""), EvDone>> >>,
      << <<EvBad, EvNoField, EvDone>> >>,
      << >>,
      << <<EvDone>>, <<EvBad, EvBoth("ok", "no")>> >> }

\* bodies of pull requests: the messages array, or a body that is not JSON
PullBodies ==
    { [valid |-> FALSE, messages |-> << >>],
      [valid |-> TRUE, messages |-> << >>],
      [valid |-> TRUE, messages |-> << Msg("user", "Hi") >>],
      [valid |-> TRUE, messages |-> << Msg("system", "s"), Msg("user", "Hi"), Msg("assistant", "yo") >>] }

\* messages of /append requests made to the session log directly
DirectMessages == { Msg("system", "s") }

\* outcomes of a call to the session log: an ok response, a response that is
\* not ok (the 500 of ConversationDO's catch), or the call throws
DoOutcomes == {"ok", "notok", "throw"}

----------------------------------------------------------------------------
(* State *)

VARIABLES
    messages,      \* ConversationDO storage key "messages"
    audioBuffers,  \* handleRealtime: byteLength of each buffered chunk
    sockOpen,      \* whether socket.send succeeds (the client is connected)
    outbound,      \* frames sent on the socket, in order; h is the run that sent it
    runs,          \* the runs of the message listener for text turn frames
    pulls,         \* the runs of handleChatRequest
    rxBytes,       \* bytes of the binary frames received since the last audio_end frame
    nBinary,       \* binary frames received
    nOther,        \* other text frames received
    nDirect,       \* direct /append requests made
    faults,        \* failed collaborator calls so far
    decoder,       \* a frame decoder: the residual buffer and what it was fed
    doRuns,        \* the runs of ConversationDO.fetch
    acked,         \* the messages of the appends ConversationDO acknowledged
    client         \* the page: its flags, its timer and the frames it sent

vars == <<messages, audioBuffers, sockOpen, outbound, runs, pulls, rxBytes,
          nBinary, nOther, nDirect, faults, decoder, doRuns, acked, client>>

\* a frame decoder before its first chunk: "let buffer = ''" and no event
\* yet; text is what the stream will deliver, fed counts the characters
\* delivered so far and cuts holds the places where a chunk ended
NewDecoder(text) ==
    [input |-> text, fed |-> 0, cuts |-> {}, buffer |-> << >>, events |-> << >>,
     flushed |-> FALSE]

\* no append acknowledged yet; serial holds while no request to the session
\* log has arrived during another one
NoneAcked == [log |-> << >>, serial |-> TRUE]

\* an element of the chat: its class ("user" or "assistant") and its text
Element(cls, text) == [cls |-> cls, text |-> text]

\* the page after its script has run: isProcessing = false, the input and
\* the send button enabled, the typing indicator hidden, no timer, no
\* recorder (stopping counts the recorders stopped whose onstop has not run
\* yet), the chat and chatHistory holding the greeting, the socket not yet
\* open.  sent holds the frames the page put on the socket, in order,
\* each with the value isProcessing had when the handler that sent it began.
NewClient ==
    [isProcessing |-> FALSE, inputDisabled |-> FALSE, sendDisabled |-> FALSE,
     typing |-> FALSE, transcriptTimeout |-> FALSE,
     isRecording |-> FALSE, stopping |-> 0,
     chat |-> << Element("assistant", "Hello!") >>,
     chatHistory |-> << Msg("assistant", "Hello!") >>,
     socket |-> "connecting",
     sent |-> << >>, nClicks |-> 0, nFrames |-> 0]

Init ==
    /\ messages = << >>
    /\ audioBuffers = << >>
    /\ sockOpen = TRUE
    /\ outbound = << >>
    /\ runs = << >>
    /\ pulls = << >>
    /\ rxBytes = 0
    /\ nBinary = 0
    /\ nOther = 0
    /\ nDirect = 0
    /\ faults = 0
    /\ decoder = NewDecoder(<< >>)
    /\ doRuns = << >>
    /\ acked = NoneAcked
    /\ client = NewClient

----------------------------------------------------------------------------
(* Helpers *)

RECURSIVE SumSeq(_)
SumSeq(s) == IF s = << >> THEN 0 ELSE Head(s) + SumSeq(Tail(s))

RECURSIVE ConcatAll(_)
ConcatAll(s) == IF s = << >> THEN "" ELSE Head(s) \o ConcatAll(Tail(s))

RECURSIVE Flatten(_)
Flatten(ss) == IF ss = << >> THEN << >> ELSE Head(ss) \o Flatten(Tail(ss))

HasSystem(msgs) == \E i \in DOMAIN msgs : msgs[i].role = "system"

\* "if (!canonicalMessages.some(m => m.role === 'system')) unshift(default)"
EnsureSystem(msgs) ==
    IF HasSystem(msgs) THEN msgs ELSE << Msg("system", SYSTEM_PROMPT) >> \o msgs

\* the outcome of a call that may fail, within the budget of failures
Outcomes(all) == IF faults < MaxFaults THEN all ELSE {"ok"}
Fault(o) == IF o = "ok" THEN faults ELSE faults + 1

\* socket.send(frame): appends the frame when the client is connected
Sent(out, frame) == IF sockOpen THEN Append(out, frame) ELSE out

Frame(t, c, h) == [type |-> t, content |-> c, h |-> h]


----------------------------------------------------------------------------
(* Delta extraction and the flush of one decoded chunk *)

\* the content of one event payload: "" when it yields no fragment
ExtractContent(ev) ==
    IF ev.kind # "json" THEN ""
    ELSE IF ev.hasResp /\ Len(ev.response) > 0 THEN ev.response
    ELSE IF ev.hasChoice /\ Len(ev.choice) > 0 THEN ev.choice
    ELSE ""

\* FlushEvent with the new content put in front of assistantText
FlushEventPrepend(st, ev, h) ==
    LET content == ExtractContent(ev)
    IN  IF content # ""
        THEN [text |-> content \o st.text,
              out |-> IF sockOpen THEN Append(st.out, [type |-> "delta", content |-> content, h |-> h])
                      ELSE st.out]
        ELSE st

\* FlushEvent accumulating the "response" shape only, as if the nested
\* delta content were sent but not added to assistantText
FlushEventResponseOnly(st, ev, h) ==
    LET content == ExtractContent(ev)
    IN  IF content # ""
        THEN [text |-> IF ev.hasResp THEN st.text \o content ELSE st.text,
              out |-> IF sockOpen THEN Append(st.out, [type |-> "delta", content |-> content, h |-> h])
                      ELSE st.out]
        ELSE st

\* FlushEvent with the send before the accumulation: a send that throws
\* leaves the per-event try before the content is added
FlushEventSendFirst(st, ev, h) ==
    LET content == ExtractContent(ev)
    IN  IF content # "" /\ sockOpen
        THEN [text |-> st.text \o content,
              out |-> Append(st.out, [type |-> "delta", content |-> content, h |-> h])]
        ELSE st

\* one pass of flushBuffer's loop body for a complete event: [DONE] and
\* payloads that JSON.parse rejects are skipped (continue / empty catch);
\* a content is added to assistantText and then sent as a delta.  The send
\* is inside the per-event try, so a send that throws is swallowed.
FlushEvent(st, ev, h) ==
    LET content == ExtractContent(ev)
    IN  IF content # ""
        THEN [text |-> st.text \o content,
              out |-> IF sockOpen THEN Append(st.out, [type |-> "delta", content |-> content, h |-> h])
                      ELSE st.out]
        ELSE st

\* flushBuffer leaving its loop at the first payload JSON.parse rejects
RECURSIVE FlushBufferAbortOnBad(_, _, _)
FlushBufferAbortOnBad(st, evs, h) ==
    IF evs = << >> \/ Head(evs).kind = "bad" THEN st
    ELSE FlushBufferAbortOnBad(FlushEvent(st, Head(evs), h), Tail(evs), h)

\* flushBuffer over the events completed by one chunk, in order
RECURSIVE FlushBuffer(_, _, _)
FlushBuffer(st, evs, h) ==
    IF evs = << >> THEN st
    ELSE FlushBuffer(FlushEvent(st, Head(evs), h), Tail(evs), h)

----------------------------------------------------------------------------
(* Runs of the duplex message listener *)

\* a run is over when done was sent ("finished"), when a collaborator threw
\* and the catch ran ("failed"), or when the send of done threw ("unsent")
Active(r) == r.pc \notin {"finished", "failed", "unsent"}

\* other activity on the session ends the quiet of every run in progress
Disturb(rs) ==
    [i \in DOMAIN rs |-> IF Active(rs[i]) THEN [rs[i] EXCEPT !.quiet = FALSE] ELSE rs[i]]

Idle == (\A i \in DOMAIN runs : ~Active(runs[i]))
        /\ (\A p \in DOMAIN pulls : pulls[p].pc = "responded")

NewRun(kind, content, totalLen) ==
    [kind |-> kind, pc |-> "append_user", content |-> content,
     totalLen |-> totalLen, expect |-> rxBytes,
     prior |-> messages, quiet |-> Idle,
     fetched |-> "none", hist |-> << >>, invoked |-> FALSE,
     stream |-> << >>, pos |-> 0, assistantText |-> "",
     ended |-> FALSE, persisted |-> FALSE, storedAt |-> 0, cut |-> FALSE,
     overheard |-> FALSE]

\* a binary frame was received after the frame of run h: more bytes were
\* received since the last audio_end frame than run h found on its arrival
\* (none, for an audio_end frame)
Overheard(h) ==
    rxBytes > (IF runs[h].kind = "audio_end" THEN 0 ELSE runs[h].expect)

\* a catch that logs and sends nothing
CatchSilent(out, h) == out

\* the catch blocks: socket.send of an error frame inside its own try
Catch(out, h) == Sent(out, Frame("error", "exception", h))

\* a binary frame that also makes the turns reading a stream start over
RecvBinaryRestarts(size) ==
    /\ sockOpen
    /\ nBinary < MaxBinary
    /\ audioBuffers' = Append(audioBuffers, size)
    /\ rxBytes' = rxBytes + size
    /\ nBinary' = nBinary + 1
    /\ runs' = [i \in DOMAIN runs |->
                    IF runs[i].pc = "read" THEN [runs[i] EXCEPT !.pos = 0] ELSE runs[i]]
    /\ UNCHANGED <<messages, sockOpen, outbound, pulls, nOther, nDirect, faults>>
    /\ UNCHANGED <<decoder, doRuns, acked, client>>

\* binary frame: audioBuffers.push(buf); return
RecvBinary(size) ==
    /\ sockOpen
    /\ nBinary < MaxBinary
    /\ audioBuffers' = Append(audioBuffers, size)
    /\ rxBytes' = rxBytes + size
    /\ nBinary' = nBinary + 1
    /\ UNCHANGED <<messages, sockOpen, outbound, runs, pulls, nOther, nDirect, faults>>
    /\ UNCHANGED <<decoder, doRuns, acked, client>>

\* text frame that JSON.parse rejects: the SyntaxError is thrown inside the
\* listener's try and reaches the outer catch
RecvMalformed ==
    /\ sockOpen
    /\ nOther < MaxOther
    /\ outbound' = Catch(outbound, 0)
    /\ nOther' = nOther + 1
    /\ UNCHANGED <<messages, audioBuffers, sockOpen, runs, pulls, rxBytes, nBinary, nDirect, faults>>
    /\ UNCHANGED <<decoder, doRuns, acked, client>>

\* text frame that parses to null ("if (!data) return") or to an object
\* whose type is neither user_message nor audio_end
RecvIgnored ==
    /\ sockOpen
    /\ nOther < MaxOther
    /\ nOther' = nOther + 1
    /\ UNCHANGED <<messages, audioBuffers, sockOpen, outbound, runs, pulls, rxBytes, nBinary, nDirect, faults>>
    /\ UNCHANGED <<decoder, doRuns, acked, client>>

\* {type: "user_message", content}: the append of the user message is issued
RecvUserMessage(content) ==
    /\ sockOpen
    /\ Len(runs) < MaxTurns
    /\ runs' = Append(Disturb(runs), NewRun("user_message", content, 0))
    /\ UNCHANGED <<messages, audioBuffers, sockOpen, outbound, pulls, rxBytes, nBinary, nOther, nDirect, faults>>
    /\ UNCHANGED <<decoder, doRuns, acked, client>>

\* {type: "audio_end"}: totalLen is summed over audioBuffers, the placeholder
\* is built and its append is issued
RecvAudioEnd ==
    /\ sockOpen
    /\ Len(runs) < MaxTurns
    /\ LET totalLen == SumSeq(audioBuffers)
       IN  runs' = Append(Disturb(runs), NewRun("audio_end", Placeholder(totalLen), totalLen))
    /\ rxBytes' = 0
    /\ UNCHANGED <<messages, audioBuffers, sockOpen, outbound, pulls, nBinary, nOther, nDirect, faults>>
    /\ UNCHANGED <<decoder, doRuns, acked, client>>

\* the append of the user message (or placeholder) returns; its response is
\* not read.  user_message: the fetch of the canonical messages is issued.
\* audio_end: the transcript is sent, the buffer is cleared, then the fetch
\* is issued; a transcript send that throws reaches the outer catch before
\* the buffer is cleared, and the error send of the catch throws too.
AppendUserReturn(h, o) ==
    /\ runs[h].pc = "append_user"
    /\ o \in Outcomes(DoOutcomes)
    /\ faults' = Fault(o)
    /\ messages' = IF o = "ok" THEN Append(messages, Msg("user", runs[h].content)) ELSE messages
    /\ IF o = "throw"
       THEN /\ outbound' = Catch(outbound, h)
            /\ runs' = [runs EXCEPT ![h].pc = "failed", ![h].quiet = FALSE]
            /\ UNCHANGED audioBuffers
       ELSE IF runs[h].kind = "audio_end" /\ ~sockOpen
       THEN /\ runs' = [runs EXCEPT ![h].pc = "unsent", ![h].quiet = FALSE]
            /\ UNCHANGED <<outbound, audioBuffers>>
       ELSE /\ runs' = [runs EXCEPT ![h].pc = "get_msgs", ![h].quiet = @ /\ o = "ok"]
            /\ IF runs[h].kind = "audio_end"
               THEN /\ outbound' = Append(outbound, Frame("transcript", runs[h].content, h))
                    /\ audioBuffers' = << >>
               ELSE UNCHANGED <<outbound, audioBuffers>>
    /\ UNCHANGED <<sockOpen, pulls, rxBytes, nBinary, nOther, nDirect>>
    /\ UNCHANGED <<decoder, doRuns, acked, client>>


\* the fetch of the canonical messages returns; the system prompt is added
\* when absent and env.AI.run is called with the result
GetMessagesReturn(h, o) ==
    /\ runs[h].pc = "get_msgs"
    /\ o \in Outcomes(DoOutcomes)
    /\ faults' = Fault(o)
    /\ IF o = "throw"
       THEN /\ outbound' = Catch(outbound, h)
            /\ runs' = [runs EXCEPT ![h].pc = "failed", ![h].quiet = FALSE,
                                    ![h].fetched = o]
       ELSE /\ LET canonicalMessages == IF o = "ok" THEN messages ELSE << >>
               IN  runs' = [runs EXCEPT ![h].pc = "ai_run",
                                        ![h].fetched = o,
                                        ![h].hist = EnsureSystem(canonicalMessages),
                                        ![h].invoked = TRUE,
                                        ![h].quiet = @ /\ o = "ok"]
            /\ UNCHANGED outbound
    /\ UNCHANGED <<messages, audioBuffers, sockOpen, pulls, rxBytes, nBinary, nOther, nDirect>>
    /\ UNCHANGED <<decoder, doRuns, acked, client>>

\* env.AI.run returns the stream (or throws); the first read is issued
AiRunReturn(h, o, s) ==
    /\ runs[h].pc = "ai_run"
    /\ o \in Outcomes({"ok", "throw"})
    /\ faults' = Fault(o)
    /\ IF o = "throw"
       THEN /\ outbound' = Catch(outbound, h)
            /\ runs' = [runs EXCEPT ![h].pc = "failed", ![h].quiet = FALSE]
       ELSE /\ runs' = [runs EXCEPT ![h].pc = "read", ![h].stream = s]
            /\ UNCHANGED outbound
    /\ UNCHANGED <<messages, audioBuffers, sockOpen, pulls, rxBytes, nBinary, nOther, nDirect>>
    /\ UNCHANGED <<decoder, doRuns, acked, client>>

\* socket.send of the done frame; a send that throws reaches the catch,
\* whose own send of the error frame throws too and is swallowed
SendDone(h) ==
    /\ outbound' = Sent(outbound, Frame("done", "", h))
    /\ runs' = [runs EXCEPT ![h].pc = IF sockOpen THEN "finished" ELSE "unsent",
                            ![h].ended = TRUE,
                            ![h].overheard = Overheard(h)]

\* reader.read() returns a chunk: it is decoded and flushed
ReadChunk(h) ==
    /\ runs[h].pc = "read"
    /\ runs[h].pos < Len(runs[h].stream)
    /\ LET st == FlushBuffer([text |-> runs[h].assistantText, out |-> outbound],
                             runs[h].stream[runs[h].pos + 1], h)
       IN  /\ outbound' = st.out
           /\ runs' = [runs EXCEPT ![h].pos = @ + 1, ![h].assistantText = st.text]
    /\ UNCHANGED <<messages, audioBuffers, sockOpen, pulls, rxBytes, nBinary, nOther, nDirect, faults>>
    /\ UNCHANGED <<decoder, doRuns, acked, client>>

\* reader.read() throws
ReadThrows(h) ==
    /\ runs[h].pc = "read"
    /\ faults < MaxFaults
    /\ faults' = faults + 1
    /\ outbound' = Catch(outbound, h)
    /\ runs' = [runs EXCEPT ![h].pc = "failed", ![h].quiet = FALSE]
    /\ UNCHANGED <<messages, audioBuffers, sockOpen, pulls, rxBytes, nBinary, nOther, nDirect>>
    /\ UNCHANGED <<decoder, doRuns, acked, client>>

\* ReadDone issuing the append whatever assistantText holds
ReadDoneAlwaysPersist(h) ==
    /\ runs[h].pc = "read"
    /\ runs[h].pos = Len(runs[h].stream)
    /\ runs' = [runs EXCEPT ![h].pc = "append_asst", ![h].ended = TRUE,
                            ![h].persisted = TRUE]
    /\ UNCHANGED <<messages, audioBuffers, sockOpen, pulls, rxBytes, nBinary, nOther, nDirect, faults, outbound>>
    /\ UNCHANGED <<decoder, doRuns, acked, client>>

\* reader.read() returns done: the final flush, then the append of the
\* assistant message is issued when assistantText is not empty, else done
\* is sent
ReadDone(h) ==
    /\ runs[h].pc = "read"
    /\ runs[h].pos = Len(runs[h].stream)
    /\ IF Len(runs[h].assistantText) > 0
       THEN /\ runs' = [runs EXCEPT ![h].pc = "append_asst", ![h].ended = TRUE,
                                    ![h].persisted = TRUE]
            /\ UNCHANGED outbound
       ELSE SendDone(h)
    /\ UNCHANGED <<messages, audioBuffers, sockOpen, pulls, rxBytes, nBinary, nOther, nDirect, faults>>
    /\ UNCHANGED <<decoder, doRuns, acked, client>>

\* the append of the assistant message returns; done is sent
AppendAssistantReturn(h, o) ==
    /\ runs[h].pc = "append_asst"
    /\ o \in Outcomes(DoOutcomes)
    /\ faults' = Fault(o)
    /\ messages' = IF o = "ok" THEN Append(messages, Msg("assistant", runs[h].assistantText))
                   ELSE messages
    /\ IF o = "throw"
       THEN /\ outbound' = Catch(outbound, h)
            /\ runs' = [runs EXCEPT ![h].pc = "failed", ![h].quiet = FALSE]
       ELSE /\ outbound' = Sent(outbound, Frame("done", "", h))
            /\ runs' = [runs EXCEPT ![h].pc = IF sockOpen THEN "finished" ELSE "unsent",
                                    ![h].overheard = Overheard(h),
                                    ![h].storedAt = IF o = "ok" THEN Len(messages') ELSE 0,
                                    ![h].quiet = @ /\ o = "ok"]
    /\ UNCHANGED <<audioBuffers, sockOpen, pulls, rxBytes, nBinary, nOther, nDirect>>
    /\ UNCHANGED <<decoder, doRuns, acked, client>>

\* the client goes away: from now on socket.send throws
ClientDisconnect ==
    /\ sockOpen
    /\ sockOpen' = FALSE
    /\ runs' = [i \in DOMAIN runs |->
                    IF Active(runs[i])
                    THEN [runs[i] EXCEPT !.quiet = FALSE, !.cut = (runs[i].pc = "read")]
                    ELSE runs[i]]
    /\ UNCHANGED <<messages, audioBuffers, outbound, pulls, rxBytes, nBinary, nOther, nDirect, faults>>
    /\ UNCHANGED <<decoder, doRuns, acked, client>>

----------------------------------------------------------------------------
(* Runs of the pull handler handleChatRequest *)

\* handleChatRequest(request, env) binds no ctx and the module has none:
\* evaluating ctx in "ctx.waitUntil(accumulateAndPersist())" throws a
\* ReferenceError before accumulateAndPersist is called
CtxBound == FALSE

\* the first message of the request, whatever its role
LastUserAnyRole(msgs) == IF msgs = << >> THEN << >> ELSE << msgs[1] >>

\* messages.filter(m => m.role === "user").slice(-1)[0]
RECURSIVE LastUser(_)
LastUser(msgs) ==
    IF msgs = << >> THEN << >>
    ELSE IF msgs[Len(msgs)].role = "user" THEN << msgs[Len(msgs)] >>
    ELSE LastUser(SubSeq(msgs, 1, Len(msgs) - 1))

\* the error result of the handler's catch: status 500, JSON body
ErrorResult(pr) == [pr EXCEPT !.pc = "responded", !.resp = "error500"]

\* POST /api/chat: request.json(); the last user message, if any, is
\* appended to the session log, else the canonical messages are fetched
PullReceive(body) ==
    /\ Len(pulls) < MaxPulls
    /\ LET pr == [pc |-> "append_user", lastUser |-> LastUser(body.messages),
                  fetched |-> "none", hist |-> << >>, invoked |-> FALSE, resp |-> "none",
                  background |-> FALSE, clean |-> body.valid]
       IN  pulls' = Append(pulls,
                IF ~body.valid THEN ErrorResult(pr)
                ELSE IF pr.lastUser = << >> THEN [pr EXCEPT !.pc = "get_msgs"]
                ELSE pr)
    /\ runs' = Disturb(runs)
    /\ UNCHANGED <<messages, audioBuffers, sockOpen, outbound, rxBytes, nBinary, nOther, nDirect, faults>>
    /\ UNCHANGED <<decoder, doRuns, acked, client>>

\* the append of the last user message returns (its response is not read)
PullAppendReturn(p, o) ==
    /\ pulls[p].pc = "append_user"
    /\ o \in Outcomes(DoOutcomes)
    /\ faults' = Fault(o)
    /\ messages' = IF o = "ok" THEN Append(messages, pulls[p].lastUser[1]) ELSE messages
    /\ pulls' = [pulls EXCEPT ![p] =
                    IF o = "throw" THEN [ErrorResult(@) EXCEPT !.clean = FALSE]
                    ELSE [@ EXCEPT !.pc = "get_msgs", !.clean = @ /\ o = "ok"]]
    /\ UNCHANGED <<audioBuffers, sockOpen, outbound, runs, rxBytes, nBinary, nOther, nDirect>>
    /\ UNCHANGED <<decoder, doRuns, acked, client>>

\* the fetch of the canonical messages returns; env.AI.run is called
PullGetMessagesReturn(p, o) ==
    /\ pulls[p].pc = "get_msgs"
    /\ o \in Outcomes(DoOutcomes)
    /\ faults' = Fault(o)
    /\ pulls' = [pulls EXCEPT ![p] =
                    IF o = "throw" THEN [ErrorResult(@) EXCEPT !.clean = FALSE, !.fetched = o]
                    ELSE [@ EXCEPT !.pc = "ai_run",
                                   !.fetched = o,
                                   !.hist = EnsureSystem(IF o = "ok" THEN messages ELSE << >>),
                                   !.invoked = TRUE,
                                   !.clean = @ /\ o = "ok"]]
    /\ UNCHANGED <<messages, audioBuffers, sockOpen, outbound, runs, rxBytes, nBinary, nOther, nDirect>>
    /\ UNCHANGED <<decoder, doRuns, acked, client>>

\* env.AI.run returns: the stream is teed, then ctx.waitUntil(...) is
\* evaluated; with ctx bound the accumulator starts and the client half is
\* returned as the event stream, otherwise the throw reaches the catch
PullAiRunReturn(p, o) ==
    /\ pulls[p].pc = "ai_run"
    /\ o \in Outcomes({"ok", "throw"})
    /\ faults' = Fault(o)
    /\ pulls' = [pulls EXCEPT ![p] =
                    IF o = "ok" /\ CtxBound
                    THEN [@ EXCEPT !.pc = "responded", !.resp = "event-stream", !.background = TRUE]
                    ELSE [ErrorResult(@) EXCEPT !.clean = @ /\ o = "ok"]]
    /\ UNCHANGED <<messages, audioBuffers, sockOpen, outbound, runs, rxBytes, nBinary, nOther, nDirect>>
    /\ UNCHANGED <<decoder, doRuns, acked, client>>

----------------------------------------------------------------------------
(* The session log *)

\* ConversationDO.fetch POST /append with a body that is a JSON message:
\* the message is pushed on the stored list, whatever its role
DirectAppend(m) ==
    /\ nDirect < MaxDirect
    /\ nDirect' = nDirect + 1
    /\ messages' = Append(messages, m)
    /\ runs' = Disturb(runs)
    /\ UNCHANGED <<audioBuffers, sockOpen, outbound, pulls, rxBytes, nBinary, nOther, faults>>
    /\ UNCHANGED <<decoder, doRuns, acked, client>>

----------------------------------------------------------------------------
(* Specification *)

\* the inference streams of the specification with every kind of frame
AudioStreams ==
    { << <<EvResp("Hel"), EvResp("")>>, <<EvChoice("lo"), EvDone>> >>,
      << >> }

\* the steps of a run of the message listener after its first await, the
\* inference streams drawn from SS
Turn(SS) ==
    \/ \E h \in DOMAIN runs, o \in DoOutcomes : AppendUserReturn(h, o)
    \/ \E h \in DOMAIN runs, o \in DoOutcomes : GetMessagesReturn(h, o)
    \/ \E h \in DOMAIN runs, o \in {"ok", "throw"}, s \in SS : AiRunReturn(h, o, s)
    \/ \E h \in DOMAIN runs : ReadChunk(h)
    \/ \E h \in DOMAIN runs : ReadDone(h)
    \/ \E h \in DOMAIN runs, o \in DoOutcomes : AppendAssistantReturn(h, o)

\* the text frames that start a turn
TurnFrames ==
    \/ \E content \in UserContents : RecvUserMessage(content)
    \/ RecvAudioEnd

\* The duplex connection with turns, failing collaborators and a client
\* that may go away.
Next ==
    \/ TurnFrames
    \/ Turn(Streams)
    \/ \E h \in DOMAIN runs : ReadThrows(h)
    \/ ClientDisconnect

Spec == Init /\ [][Next]_vars

\* The duplex connection with every kind of inbound frame: binary and other
\* text frames interleaved with the turns, collaborators that do not fail, a
\* client that stays.
InitAudio ==
    /\ messages = << >>
    /\ audioBuffers = << >>
    /\ sockOpen = TRUE
    /\ outbound = << >>
    /\ runs = << >>
    /\ pulls = << >>
    /\ rxBytes = 0
    /\ nBinary = 0
    /\ nOther = 0
    /\ nDirect = 0
    /\ faults = MaxFaults
    /\ decoder = NewDecoder(<< >>)
    /\ doRuns = << >>
    /\ acked = NoneAcked
    /\ client = NewClient

NextAudio ==
    \/ \E size \in ChunkSizes : RecvBinary(size)
    \/ RecvMalformed
    \/ RecvIgnored
    \/ TurnFrames
    \/ Turn(AudioStreams)

SpecAudio == InitAudio /\ [][NextAudio]_vars

\* The pull transport, with /append requests reaching the session log
\* directly and one duplex connection on the same session.
NextPull ==
    \/ \E body \in PullBodies : PullReceive(body)
    \/ \E p \in DOMAIN pulls, o \in DoOutcomes : PullAppendReturn(p, o)
    \/ \E p \in DOMAIN pulls, o \in DoOutcomes : PullGetMessagesReturn(p, o)
    \/ \E p \in DOMAIN pulls, o \in {"ok", "throw"} : PullAiRunReturn(p, o)
    \/ \E m \in DirectMessages : DirectAppend(m)

SpecPull == Init /\ [][NextPull]_vars

----------------------------------------------------------------------------
(* Vocabulary of the properties *)

\* the frames run h sent, in order
FramesOf(h) ==
    LET ByH(f) == f.h = h
    IN  SelectSeq(outbound, ByH)

\* the contents of the delta frames run h sent, in order
DeltaContents(h) ==
    LET IsDelta(f) == f.h = h /\ f.type = "delta"
        ds == SelectSeq(outbound, IsDelta)
    IN  [i \in 1..Len(ds) |-> ds[i].content]

\* how many frames of type t run h sent
CountOf(h, t) ==
    Cardinality({i \in DOMAIN outbound : outbound[i].h = h /\ outbound[i].type = t})

\* the content fragment an event carries by the rules of the delta
\* extractor: a non-empty string "response", else the nested delta content
Fragment(ev) ==
    CASE ev.kind = "json" /\ ev.hasResp /\ ev.response # "" -> ev.response
      [] ev.kind = "json" /\ ~(ev.hasResp /\ ev.response # "") /\ ev.hasChoice -> ev.choice
      [] OTHER -> ""

\* the non-empty fragments of a stream, in the order they are decoded
Fragments(stream) ==
    LET evs == Flatten(stream)
        NonEmpty(ev) == Fragment(ev) # ""
        es == SelectSeq(evs, NonEmpty)
    IN  [i \in 1..Len(es) |-> Fragment(es[i])]

\* content events only, followed by [DONE]
WellFormed(stream) ==
    LET evs == Flatten(stream)
    IN  /\ Len(evs) >= 1
        /\ evs[Len(evs)] = EvDone
        /\ \A i \in 1..(Len(evs) - 1) : evs[i].kind = "json" /\ (evs[i].hasResp \/ evs[i].hasChoice)

\* what the client is to receive for a turn: a delta per fragment, then done
ExpectedFrames(stream, h) ==
    LET fs == Fragments(stream)
    IN  [i \in 1..Len(fs) |-> Frame("delta", fs[i], h)] \o << Frame("done", "", h) >>

\* the assistant messages in the log are those of the runs that stored one
StoredOnce ==
    Cardinality({i \in DOMAIN messages : messages[i].role = "assistant"})
        = Cardinality({h \in DOMAIN runs : runs[h].storedAt > 0})

\* a user_message turn that ran alone on the session to its done frame over
\* a well-formed stream, no turn having started since
QuietTurn(h) ==
    /\ h = Len(runs)
    /\ runs[h].kind = "user_message"
    /\ runs[h].quiet
    /\ runs[h].pc = "finished"
    /\ WellFormed(runs[h].stream)

----------------------------------------------------------------------------
(* C1 *)

\* C1: at most one inference run is active at a time for the user_message
\* frames of one connection (a run is active from the call of env.AI.run
\* until its turn has sent done or error).
C1_AtMostOneInFlight ==
    Cardinality({h \in DOMAIN runs :
        runs[h].kind = "user_message" /\ runs[h].invoked /\ Active(runs[h])}) <= 1

----------------------------------------------------------------------------
(* C2 *)

\* C2 as stated: a user_message turn alone on the session over a well-formed
\* stream sends one delta per non-empty fragment, in order, then one done,
\* and the log ends as the prior log, the user message and one assistant
\* message holding the concatenation of the fragments.
C2_SingleTurnAlwaysOneAssistant ==
    \A h \in DOMAIN runs : QuietTurn(h) =>
        /\ FramesOf(h) = ExpectedFrames(runs[h].stream, h)
        /\ messages = runs[h].prior
                        \o << Msg("user", runs[h].content) >>
                        \o << Msg("assistant", ConcatAll(Fragments(runs[h].stream))) >>

\* C2 amended: the same, the assistant message being appended when the
\* concatenation of the fragments is not empty, and none when it is empty.
C2_SingleTurn ==
    \A h \in DOMAIN runs : QuietTurn(h) =>
        LET reply == ConcatAll(Fragments(runs[h].stream))
        IN  /\ FramesOf(h) = ExpectedFrames(runs[h].stream, h)
            /\ messages = runs[h].prior
                            \o << Msg("user", runs[h].content) >>
                            \o (IF reply = "" THEN << >> ELSE << Msg("assistant", reply) >>)

\* the scenario of the specification after an earlier turn: fragments "Hel"
\* and "lo", the log ending with the user message "Hi" and "Hello"
C2_Witness ==
    \E h \in DOMAIN runs :
        /\ QuietTurn(h)
        /\ runs[h].prior # << >>
        /\ DeltaContents(h) = << "Hel", "lo" >>
        /\ messages[Len(messages)] = Msg("assistant", "Hello")
        /\ messages[Len(messages) - 1] = Msg("user", "Hi")

----------------------------------------------------------------------------
(* C3 *)

\* C3: tee fidelity.  For every turn that completes (its done frame was
\* sent) and whose assistant message was appended, the content of that
\* message is the concatenation, in order, of that turn's delta frames.
C3_TeeFidelity ==
    \A h \in DOMAIN runs :
        (runs[h].pc = "finished" /\ runs[h].storedAt > 0) =>
            /\ runs[h].storedAt <= Len(messages)
            /\ messages[runs[h].storedAt] = Msg("assistant", ConcatAll(DeltaContents(h)))

\* two turns in flight together, one of them completed with two deltas
C3_Witness ==
    \E h \in DOMAIN runs :
        /\ runs[h].pc = "finished"
        /\ runs[h].storedAt > 0
        /\ ~runs[h].quiet
        /\ Len(DeltaContents(h)) = 2
        /\ \E g \in DOMAIN runs : g # h /\ runs[g].pc = "read"

----------------------------------------------------------------------------
(* C4 *)

\* no event of the stream carries a non-empty fragment
NoFragment(stream) == \A i \in DOMAIN Flatten(stream) : Fragment(Flatten(stream)[i]) = ""

\* C4: when the stream of a turn has ended without a non-empty fragment, no
\* assistant message is appended for the turn and done is sent (the send
\* fails only when the client is gone).
C4_EmptyReply ==
    /\ StoredOnce
    /\ \A h \in DOMAIN runs :
        (runs[h].ended /\ NoFragment(runs[h].stream)) =>
            /\ ~runs[h].persisted
            /\ runs[h].storedAt = 0
            /\ \/ runs[h].pc = "finished" /\ CountOf(h, "done") = 1
               \/ runs[h].pc = "unsent" /\ ~sockOpen

\* a stream of an unparseable event, an event with no content field and
\* [DONE] has ended, done was sent and the log holds the user message only
C4_Witness ==
    \E h \in DOMAIN runs :
        /\ runs[h].ended
        /\ NoFragment(runs[h].stream)
        /\ Len(Flatten(runs[h].stream)) = 3
        /\ runs[h].pc = "finished"
        /\ messages = << Msg("user", runs[h].content) >>

----------------------------------------------------------------------------
(* C5 *)

SystemCount(msgs) == Cardinality({i \in DOMAIN msgs : msgs[i].role = "system"})

\* C5: every history passed to env.AI.run, by the pull handler and by the
\* duplex turns, holds exactly one message of role "system", whatever the
\* stored log holds.
C5_ExactlyOneSystem ==
    /\ \A p \in DOMAIN pulls : pulls[p].invoked => SystemCount(pulls[p].hist) = 1
    /\ \A h \in DOMAIN runs : runs[h].invoked => SystemCount(runs[h].hist) = 1

----------------------------------------------------------------------------
(* C6 *)

\* C6: the transcript of an audio_end states the bytes of the binary chunks
\* received since the previous audio_end (or since the connection opened),
\* and once every audio_end received has been processed the buffer holds
\* nothing received before the last of them.
C6_TranscriptCountsUtterance ==
    /\ \A i \in DOMAIN outbound :
          outbound[i].type = "transcript" =>
              outbound[i].content = Placeholder(runs[outbound[i].h].expect)
    /\ (\A h \in DOMAIN runs : ~(runs[h].kind = "audio_end" /\ runs[h].pc = "append_user"))
          => SumSeq(audioBuffers) <= rxBytes

----------------------------------------------------------------------------
(* C7 *)

\* C7: when the client goes away while a turn is reading its stream and no
\* collaborator fails, the run is not ended before the end of the stream,
\* assistantText then holds every fragment of the stream, and a non-empty
\* reply is in the log, as one assistant message, when the run is over.
C7_DisconnectKeepsReply ==
    /\ StoredOnce
    /\ \A h \in DOMAIN runs :
        (runs[h].cut /\ faults = 0) =>
            LET reply == ConcatAll(Fragments(runs[h].stream))
            IN  /\ ~Active(runs[h]) => runs[h].ended
                /\ runs[h].ended => runs[h].assistantText = reply
                /\ (~Active(runs[h]) /\ reply # "") =>
                      /\ runs[h].storedAt \in 1..Len(messages)
                      /\ messages[runs[h].storedAt] = Msg("assistant", reply)

\* the client left after the first delta of "Hel", "lo": it received "Hel"
\* only, the done could not be sent, and the log holds "Hello"
C7_Witness ==
    \E h \in DOMAIN runs :
        /\ runs[h].cut
        /\ faults = 0
        /\ runs[h].pc = "unsent"
        /\ DeltaContents(h) = << "Hel" >>
        /\ runs[h].storedAt > 0
        /\ messages[runs[h].storedAt] = Msg("assistant", "Hello")

----------------------------------------------------------------------------
(* C8 *)

\* C8: a pull request with a valid body whose session-log calls and
\* inference call all succeed is answered with the event stream, and the
\* background accumulator is started.
C8_PullReturnsStream ==
    \A p \in DOMAIN pulls :
        (pulls[p].pc = "responded" /\ pulls[p].clean) =>
            /\ pulls[p].resp = "event-stream"
            /\ pulls[p].background

----------------------------------------------------------------------------
(* C9 *)

\* a run that ended in the catch because a collaborator threw has sent one
\* error frame (none only when the client is gone) and no done frame
ErrorReported(h) ==
    /\ CountOf(h, "done") = 0
    /\ \/ CountOf(h, "error") = 1
       \/ CountOf(h, "error") = 0 /\ ~sockOpen

\* a user_message turn that came after a failed one and reached its done
\* frame was served as any turn is
ServedNormally(h) ==
    /\ FramesOf(h) = ExpectedFrames(runs[h].stream, h)
    /\ runs[h].assistantText = ConcatAll(Fragments(runs[h].stream))
    /\ runs[h].storedAt > 0 =>
          messages[runs[h].storedAt] = Msg("assistant", runs[h].assistantText)

\* an exception raised while a frame is serviced is reported with an error
\* frame, and the connection stays usable: a further text frame is still
\* accepted, and a later user_message turn is served as a normal turn
C9_Inv ==
    \A h \in DOMAIN runs :
        runs[h].pc = "failed" =>
            /\ ErrorReported(h)
            /\ (sockOpen /\ Len(runs) < MaxTurns) => ENABLED RecvUserMessage("Hi")
            /\ \A g \in DOMAIN runs :
                  (g > h /\ runs[g].kind = "user_message" /\ runs[g].pc = "finished")
                      => ServedNormally(g)

\* the step that ends a run in the catch leaves the connection as it was
C9_Step ==
    (\E h \in DOMAIN runs : runs[h].pc # "failed" /\ runs'[h].pc = "failed")
        => sockOpen' = sockOpen

\* C9: both hold throughout: every failed run has reported its error and
\* later turns are served normally (C9_Inv), and no step that ends a run in
\* the catch closes the connection (C9_Step).
C9_ErrorKeepsConnection == [](C9_Inv) /\ [][C9_Step]_vars

\* the first turn failed and its error frame was sent; a user_message that
\* arrived afterwards ran alone to its done frame and stored its reply
C9_Witness ==
    \E h, g \in DOMAIN runs :
        /\ h < g
        /\ runs[h].pc = "failed"
        /\ CountOf(h, "error") = 1
        /\ runs[g].kind = "user_message"
        /\ runs[g].quiet
        /\ runs[g].pc = "finished"
        /\ runs[g].storedAt > 0
        /\ sockOpen

----------------------------------------------------------------------------
(* C10 *)

\* C10: a text frame that is not JSON is ignored: it sends no frame, leaves
\* the log and the audio buffer as they are and starts no run.
C10_MalformedIgnored ==
    [][RecvMalformed => UNCHANGED <<outbound, messages, audioBuffers, runs>>]_vars

----------------------------------------------------------------------------
(* The frame decoder *)

\* Text is a sequence of characters.  The chunks of the model are the
\* strings TextDecoder.decode(value, {stream: true}) returns, which for the
\* one-byte characters used here are the bytes of the chunk themselves.
CR == "\r"
NL == "\n"
SP == " "
DataMarker == << "d", "a", "t", "a", ":" >>
RecordSeparator == << NL, NL >>

\* the white space String.prototype.trimStart removes
WhiteSpace == {SP, "\t", NL, CR, "\f"}

\* the texts an inference stream delivers
DecoderTexts ==
    { \* "data: a" CR NL CR NL: a record with CR NL line ends
      DataMarker \o << SP, "a", CR, NL, CR, NL >>,
      \* a record of two data lines, terminated by three NL
      DataMarker \o << "x", NL >> \o DataMarker \o << "y", NL, NL, NL >>,
      \* a record without a data line, then a record that is not terminated
      << ":", NL, NL >> \o DataMarker \o << "z" >>,
      \* a value that starts with two spaces, a CR inside the separator, a
      \* last line that is cut inside the marker
      DataMarker \o << SP, SP, "x", NL, CR, NL, "d", "a", NL >> }

\* buffer.replace(/\r/g, "")
StripCR(s) ==
    LET NotCR(c) == c # CR
    IN  SelectSeq(s, NotCR)

\* normalized.indexOf("\n\n"), counted from 1; 0 when there is none
RECURSIVE IndexOfSeparator(_, _)
IndexOfSeparator(s, from) ==
    IF from + 1 > Len(s) THEN 0
    ELSE IF s[from] = NL /\ s[from + 1] = NL THEN from
    ELSE IndexOfSeparator(s, from + 1)

\* rawEvent.split("\n")
RECURSIVE SplitLines(_, _)
SplitLines(s, line) ==
    IF s = << >> THEN << line >>
    ELSE IF Head(s) = NL THEN << line >> \o SplitLines(Tail(s), << >>)
    ELSE SplitLines(Tail(s), Append(line, Head(s)))

\* line.startsWith("data:")
StartsWithData(line) ==
    Len(line) >= Len(DataMarker) /\ SubSeq(line, 1, Len(DataMarker)) = DataMarker

\* String.prototype.trimStart
RECURSIVE TrimStart(_)
TrimStart(s) ==
    IF s # << >> /\ Head(s) \in WhiteSpace THEN TrimStart(Tail(s)) ELSE s

\* the data lines of a record: line.slice("data:".length).trimStart()
DataLines(rawEvent) ==
    LET lines == SplitLines(rawEvent, << >>)
        marked == SelectSeq(lines, StartsWithData)
    IN  [i \in 1..Len(marked) |->
            TrimStart(SubSeq(marked[i], Len(DataMarker) + 1, Len(marked[i])))]

\* dataLines.join("\n")
RECURSIVE JoinLines(_)
JoinLines(ls) ==
    IF Len(ls) = 0 THEN << >>
    ELSE IF Len(ls) = 1 THEN ls[1]
    ELSE ls[1] \o << NL >> \o JoinLines(Tail(ls))

\* the while loop of the decoder: records are cut off the front of
\* normalized while it holds a separator; a record with a data line adds
\* its payload to events
RECURSIVE DecodeLoop(_, _)
DecodeLoop(normalized, events) ==
    LET eventEndIndex == IndexOfSeparator(normalized, 1)
    IN  IF eventEndIndex = 0 THEN [events |-> events, buffer |-> normalized]
        ELSE LET rawEvent == SubSeq(normalized, 1, eventEndIndex - 1)
                 rest == SubSeq(normalized, eventEndIndex + 2, Len(normalized))
                 dataLines == DataLines(rawEvent)
             IN  IF Len(dataLines) = 0 THEN DecodeLoop(rest, events)
                 ELSE DecodeLoop(rest, Append(events, JoinLines(dataLines)))

\* a decoder that forgets the text after the last separator
consumeSseEventsNoResidual(buffer) ==
    [events |-> DecodeLoop(StripCR(buffer), << >>).events, buffer |-> << >>]

\* consumeSseEvents(buffer), and the same loop inlined as flushBuffer in
\* handleRealtime: the events of the complete records and the residual
consumeSseEvents(buffer) == DecodeLoop(StripCR(buffer), << >>)

\* "buffer += decoder.decode(value, { stream: true }); await flushBuffer()"
\* for a chunk of n characters
DecoderFeed(n) ==
    /\ ~decoder.flushed
    /\ n \in 1..(Len(decoder.input) - decoder.fed)
    /\ LET chunk == SubSeq(decoder.input, decoder.fed + 1, decoder.fed + n)
           res == consumeSseEvents(decoder.buffer \o chunk)
       IN  decoder' = [decoder EXCEPT !.fed = @ + n,
                                      !.cuts = IF decoder.fed + n < Len(decoder.input)
                                               THEN @ \cup {decoder.fed + n} ELSE @,
                                      !.buffer = res.buffer,
                                      !.events = @ \o res.events]
    /\ UNCHANGED <<messages, audioBuffers, sockOpen, outbound, runs, pulls, rxBytes,
                   nBinary, nOther, nDirect, faults, doRuns, acked, client>>

\* reader.read() returns done: "buffer += '\n\n'; await flushBuffer(); break"
DecoderEnd ==
    /\ ~decoder.flushed
    /\ decoder.fed = Len(decoder.input)
    /\ LET res == consumeSseEvents(decoder.buffer \o RecordSeparator)
       IN  decoder' = [decoder EXCEPT !.buffer = res.buffer,
                                      !.events = @ \o res.events,
                                      !.flushed = TRUE]
    /\ UNCHANGED <<messages, audioBuffers, sockOpen, outbound, runs, pulls, rxBytes,
                   nBinary, nOther, nDirect, faults, doRuns, acked, client>>

\* A decoder fed one of the texts in chunks cut anywhere.
InitDecoder ==
    /\ messages = << >>
    /\ audioBuffers = << >>
    /\ sockOpen = TRUE
    /\ outbound = << >>
    /\ runs = << >>
    /\ pulls = << >>
    /\ rxBytes = 0
    /\ nBinary = 0
    /\ nOther = 0
    /\ nDirect = 0
    /\ faults = 0
    /\ decoder \in {NewDecoder(text) : text \in DecoderTexts}
    /\ doRuns = << >>
    /\ acked = NoneAcked
    /\ client = NewClient

NextDecoder ==
    \/ \E n \in 1..Len(decoder.input) : DecoderFeed(n)
    \/ DecoderEnd

SpecDecoder == InitDecoder /\ [][NextDecoder]_vars

----------------------------------------------------------------------------
(* C11 *)

\* the events of the whole text fed as a single chunk and then flushed
WholeEvents(text) ==
    LET first == consumeSseEvents(text)
        last == consumeSseEvents(first.buffer \o RecordSeparator)
    IN  first.events \o last.events

\* C11: chunk-split invariance.  Whatever the places the text was cut at,
\* the events decoded so far are those of the text fed so far as one chunk,
\* and after the flush they are the events of the whole text fed as one
\* chunk and flushed, in the same order.
C11_ChunkSplitInvariance ==
    /\ ~decoder.flushed =>
          decoder.events = consumeSseEvents(SubSeq(decoder.input, 1, decoder.fed)).events
    /\ decoder.flushed => decoder.events = WholeEvents(decoder.input)

\* the first text cut inside the data: marker, between the first CR and its
\* NL and inside the separator, flushed to the payload "a"
C11_Witness ==
    /\ decoder.flushed
    /\ decoder.input[8] = CR
    /\ {2, 8, 10} \subseteq decoder.cuts
    /\ decoder.events = << << "a" >> >>

----------------------------------------------------------------------------
(* C12 *)

\* the frames of a turn: those sent by the run of a user_message or
\* audio_end frame (an error frame for a text frame that is not JSON
\* belongs to no turn and carries run 0)
TurnFrame(f) == f.h > 0

\* C12: turns are strictly sequential in the outbound frames: no transcript
\* or delta frame of a later-triggered turn is sent before a delta, done or
\* error frame of an earlier-triggered turn.
C12_TurnsSequential ==
    \A i, j \in DOMAIN outbound :
        (i < j /\ TurnFrame(outbound[i]) /\ TurnFrame(outbound[j]))
            => ~(/\ outbound[i].h > outbound[j].h
                 /\ outbound[i].type \in {"transcript", "delta"}
                 /\ outbound[j].type \in {"delta", "done", "error"})

----------------------------------------------------------------------------
(* C13 *)

\* C13: when the fetch of the canonical messages before generation fails
\* (a response that is not ok, or the call throws), env.AI.run is not
\* called for the turn and the turn ends with an error: an error frame on
\* the duplex connection, an error result on the pull transport.
C13_FailedFetchIsTurnError ==
    /\ \A h \in DOMAIN runs :
          runs[h].fetched \in {"notok", "throw"} =>
              /\ ~runs[h].invoked
              /\ runs[h].pc = "failed"
              /\ (sockOpen => CountOf(h, "error") = 1)
    /\ \A p \in DOMAIN pulls :
          pulls[p].fetched \in {"notok", "throw"} =>
              /\ ~pulls[p].invoked
              /\ pulls[p].resp = "error500"

----------------------------------------------------------------------------
(* C14 *)

\* the append of the assistant message of run h was issued and has failed:
\* the call has returned or thrown and the message was not stored
AssistantAppendFailed(h) ==
    /\ runs[h].persisted
    /\ runs[h].pc # "append_asst"
    /\ runs[h].storedAt = 0

\* C14: a failed append of the assistant message leaves the live path of
\* the turn as it is: the turn sends no error frame and, the client being
\* connected, is terminated with its done frame after the deltas it sent.
C14_PersistFailureKeepsLivePath ==
    \A h \in DOMAIN runs :
        AssistantAppendFailed(h) =>
            /\ CountOf(h, "error") = 0
            /\ sockOpen =>
                  /\ CountOf(h, "done") = 1
                  /\ FramesOf(h)[Len(FramesOf(h))].type = "done"

----------------------------------------------------------------------------
(* C15 *)

\* C15: env.AI.run is called for a turn only after the append of the turn's
\* user message, with messages read from the session log after that append:
\* the messages passed to env.AI.run hold the user message of the turn.
C15_AppendBeforeInference ==
    /\ \A h \in DOMAIN runs :
          runs[h].invoked =>
              \E i \in DOMAIN runs[h].hist :
                  runs[h].hist[i] = Msg("user", runs[h].content)
    /\ \A p \in DOMAIN pulls :
          (pulls[p].invoked /\ pulls[p].lastUser # << >>) =>
              \E i \in DOMAIN pulls[p].hist :
                  pulls[p].hist[i] = pulls[p].lastUser[1]

----------------------------------------------------------------------------
(* ConversationDO.fetch, request by request *)

\* requests to the session log in this part of the model
MaxRequests == 3
\* requests to the session log in progress at the same time
MaxInFlight == 2

\* bodies of POST /append: no body, a body that is not JSON, a message
AppendBodies ==
    { [kind |-> "empty", msg |-> Msg("", "")],
      [kind |-> "invalid", msg |-> Msg("", "")],
      [kind |-> "json", msg |-> Msg("user", "a")],
      [kind |-> "json", msg |-> Msg("assistant", "b")] }

NoBody == [kind |-> "empty", msg |-> Msg("", "")]

\* method and path of a request: GET /messages, POST /append, DELETE /clear
\* and anything else
DoOps == {"messages", "append", "clear", "other"}

\* a run of fetch is suspended at "await request.text()" (pc "text") or at
\* an awaited operation of this.state.storage (pc "get", "put", "delete")
InStorage(r) == r.pc \in {"get", "put", "delete"}

\* the input gate of a Durable Object left open whatever is pending
InputGateAlwaysOpen == TRUE

\* this.state.storage is the storage of a Durable Object: while one of its
\* operations is pending the object's input gate is closed, and no other
\* event (a new request, the body of another request) is delivered to it
InputGateOpen == \A r \in DOMAIN doRuns : ~InStorage(doRuns[r])

\* the response of a run: status, and the messages of a 200
Respond(r, status, body) == [r EXCEPT !.pc = "responded", !.status = status, !.result = body]

\* msgs.unshift(msg) in the place of msgs.push(msg)
PushFront(msgs, msg) == << msg >> \o msgs

\* msgs.push(msg)
Push(msgs, msg) == Append(msgs, msg)

\* a request arrives: fetch runs to its first await, or to a 404; during
\* holds the runs in progress at that moment
DoReceive(op, body) ==
    /\ Len(doRuns) < MaxRequests
    /\ Cardinality({i \in DOMAIN doRuns : doRuns[i].pc # "responded"}) < MaxInFlight
    /\ InputGateOpen
    /\ op # "append" => body = NoBody
    /\ LET r == [op |-> op, body |-> body, msgs |-> << >>, status |-> 0,
                 result |-> << >>, expected |-> << >>,
                 during |-> {i \in DOMAIN doRuns : doRuns[i].pc # "responded"},
                 pc |-> CASE op = "messages" -> "get"
                          [] op = "append" -> "text"
                          [] op = "clear" -> "delete"
                          [] OTHER -> "responded"]
       IN  doRuns' = Append(doRuns, IF op = "other" THEN [r EXCEPT !.status = 404] ELSE r)
    /\ acked' = [acked EXCEPT !.serial =
                    @ /\ \A i \in DOMAIN doRuns : doRuns[i].pc = "responded"]
    /\ UNCHANGED <<messages, audioBuffers, sockOpen, outbound, runs, pulls, rxBytes,
                   nBinary, nOther, nDirect, faults, decoder, client>>

\* request.text() returns: 400 for no body and for a body JSON.parse
\* rejects, else storage.get is issued
DoTextReturn(r) ==
    /\ doRuns[r].pc = "text"
    /\ InputGateOpen
    /\ doRuns' = [doRuns EXCEPT ![r] =
                    IF doRuns[r].body.kind = "json" THEN [@ EXCEPT !.pc = "get"]
                    ELSE Respond(@, 400, << >>)]
    /\ UNCHANGED <<messages, audioBuffers, sockOpen, outbound, runs, pulls, rxBytes,
                   nBinary, nOther, nDirect, faults, decoder, acked, client>>

\* storage.get("messages") returns the stored list (|| [] when none is
\* stored) or throws.  GET /messages: 200 with the list.  POST /append: the
\* message is pushed on the list and storage.put is issued.
DoStorageGetReturn(r, o) ==
    /\ doRuns[r].pc = "get"
    /\ o \in Outcomes({"ok", "throw"})
    /\ faults' = Fault(o)
    /\ doRuns' = [doRuns EXCEPT ![r] =
                    IF o = "throw" THEN Respond(@, 500, << >>)
                    ELSE IF doRuns[r].op = "messages"
                    THEN [Respond(@, 200, messages) EXCEPT !.expected = acked.log]
                    ELSE [@ EXCEPT !.pc = "put", !.msgs = Push(messages, doRuns[r].body.msg)]]
    /\ UNCHANGED <<messages, audioBuffers, sockOpen, outbound, runs, pulls, rxBytes,
                   nBinary, nOther, nDirect, decoder, acked, client>>

\* storage.put("messages", msgs) returns: 204; or throws: 500
DoStoragePutReturn(r, o) ==
    /\ doRuns[r].pc = "put"
    /\ o \in Outcomes({"ok", "throw"})
    /\ faults' = Fault(o)
    /\ messages' = IF o = "ok" THEN doRuns[r].msgs ELSE messages
    /\ doRuns' = [doRuns EXCEPT ![r] = Respond(@, IF o = "ok" THEN 204 ELSE 500, << >>)]
    /\ acked' = IF o = "ok" THEN [acked EXCEPT !.log = Append(@, doRuns[r].body.msg)]
                ELSE acked
    /\ UNCHANGED <<audioBuffers, sockOpen, outbound, runs, pulls, rxBytes,
                   nBinary, nOther, nDirect, decoder, client>>

\* storage.delete("messages") returns: 204; or throws: 500
DoStorageDeleteReturn(r, o) ==
    /\ doRuns[r].pc = "delete"
    /\ o \in Outcomes({"ok", "throw"})
    /\ faults' = Fault(o)
    /\ messages' = IF o = "ok" THEN << >> ELSE messages
    /\ doRuns' = [doRuns EXCEPT ![r] = Respond(@, IF o = "ok" THEN 204 ELSE 500, << >>)]
    /\ acked' = IF o = "ok" THEN [acked EXCEPT !.log = << >>] ELSE acked
    /\ UNCHANGED <<audioBuffers, sockOpen, outbound, runs, pulls, rxBytes,
                   nBinary, nOther, nDirect, decoder, client>>

\* One session log serving requests that may overlap.
NextLog ==
    \/ \E op \in DoOps, body \in AppendBodies : DoReceive(op, body)
    \/ \E r \in DOMAIN doRuns : DoTextReturn(r)
    \/ \E r \in DOMAIN doRuns, o \in {"ok", "throw"} : DoStorageGetReturn(r, o)
    \/ \E r \in DOMAIN doRuns, o \in {"ok", "throw"} : DoStoragePutReturn(r, o)
    \/ \E r \in DOMAIN doRuns, o \in {"ok", "throw"} : DoStorageDeleteReturn(r, o)

SpecLog == Init /\ [][NextLog]_vars

----------------------------------------------------------------------------
(* C16 *)

\* C16: the sequential contract of the session log.  While the requests are
\* made one after another, every GET /messages answered 200 returned the
\* messages of the appends acknowledged since the last clear (or since
\* creation), in the order of the appends: the empty list for a log never
\* used and after a clear.
C16_SequentialContract ==
    acked.serial =>
        \A r \in DOMAIN doRuns :
            (doRuns[r].op = "messages" /\ doRuns[r].status = 200)
                => doRuns[r].result = doRuns[r].expected

\* two appends one after the other, then a get that returns the two
\* messages in the order they were appended
C16_Witness ==
    /\ acked.serial
    /\ Len(doRuns) = 3
    /\ doRuns[1].op = "append" /\ doRuns[1].status = 204
    /\ doRuns[2].op = "append" /\ doRuns[2].status = 204
    /\ doRuns[3].op = "messages" /\ doRuns[3].status = 200
    /\ doRuns[3].result = << Msg("user", "a"), Msg("assistant", "b") >>

----------------------------------------------------------------------------
(* C19 *)

----------------------------------------------------------------------------
(* The page: sendMessage, the voice button and the socket's listener *)

\* clicks and key presses of the user
MaxClicks == 3
\* frames the page receives
MaxFrames == 3

\* what the input field holds when sendMessage runs, trimmed
InputValues == {"", "Hi"}

\* frames from the server: the four types the listener handles, a frame of
\* another type and data that JSON.parse rejects
InboundFrames ==
    { [type |-> "delta", content |-> "x"],
      [type |-> "done", content |-> ""],
      [type |-> "transcript", content |-> "t"],
      [type |-> "error", content |-> "e"],
      [type |-> "other", content |-> ""],
      [type |-> "malformed", content |-> ""] }

\* socket.send(data): throws while the socket is not yet open, reaches the
\* server when it is open and is dropped once it is closed
SendThrows(c) == c.socket = "connecting"
SocketSend(c, type) ==
    IF c.socket = "open"
    THEN Append(c.sent, [type |-> type, isProcessing |-> client.isProcessing])
    ELSE c.sent

\* "typingIndicator.classList.remove('visible'); isProcessing = false;
\* userInput.disabled = false; sendButton.disabled = false"
Recovered(c) ==
    [c EXCEPT !.typing = FALSE, !.isProcessing = FALSE,
              !.inputDisabled = FALSE, !.sendDisabled = FALSE]

\* "isProcessing = true; userInput.disabled = true; sendButton.disabled =
\* true" and the typing indicator shown
Processing(c) ==
    [c EXCEPT !.typing = TRUE, !.isProcessing = TRUE,
              !.inputDisabled = TRUE, !.sendDisabled = TRUE]

\* addMessageToChat(role, content)
AddMessageToChat(c, role, content) ==
    [c EXCEPT !.chat = Append(@, Element(role, content))]

LastIsAssistant(c) == c.chat # << >> /\ c.chat[Len(c.chat)].cls = "assistant"

\* sendMessage(), on a click of the send button or on Enter in the input
SendMessage(message) ==
    /\ client.nClicks < MaxClicks
    /\ ~client.sendDisabled \/ ~client.inputDisabled
    /\ LET c0 == [client EXCEPT !.nClicks = @ + 1]
           c1 == [AddMessageToChat(Processing(c0), "user", message)
                      EXCEPT !.chatHistory = Append(@, Msg("user", message))]
           c2 == AddMessageToChat(c1, "assistant", "")
       IN  client' =
             IF message = "" \/ client.isProcessing THEN c0
             ELSE IF SendThrows(c2)
             THEN Recovered(AddMessageToChat(c2, "assistant", "Sorry"))
             ELSE [c2 EXCEPT !.sent = SocketSend(c2, "user_message")]
    /\ UNCHANGED <<messages, audioBuffers, sockOpen, outbound, runs, pulls, rxBytes,
                   nBinary, nOther, nDirect, faults, decoder, doRuns, acked>>

\* a click of the voice button; granted is whether getUserMedia resolves
VoiceClick(granted) ==
    /\ client.nClicks < MaxClicks
    /\ LET c0 == [client EXCEPT !.nClicks = @ + 1]
       IN  client' =
             IF client.socket # "open" THEN c0
             ELSE IF client.isRecording
             THEN [c0 EXCEPT !.isRecording = FALSE, !.stopping = @ + 1]
             ELSE IF granted
             THEN [c0 EXCEPT !.isRecording = TRUE]
             ELSE c0
    /\ UNCHANGED <<messages, audioBuffers, sockOpen, outbound, runs, pulls, rxBytes,
                   nBinary, nOther, nDirect, faults, decoder, doRuns, acked>>

\* mediaRecorder.ondataavailable: the chunk is sent as a binary frame
RecorderData ==
    /\ client.isRecording \/ client.stopping > 0
    /\ Cardinality({i \in DOMAIN client.sent : client.sent[i].type = "binary"}) < MaxBinary
    /\ client' = [client EXCEPT !.sent = SocketSend(client, "binary")]
    /\ UNCHANGED <<messages, audioBuffers, sockOpen, outbound, runs, pulls, rxBytes,
                   nBinary, nOther, nDirect, faults, decoder, doRuns, acked>>

\* mediaRecorder.onstop: audio_end is sent
RecorderStop ==
    /\ client.stopping > 0
    /\ client' = [client EXCEPT !.sent = SocketSend(client, "audio_end"),
                                !.stopping = @ - 1]
    /\ UNCHANGED <<messages, audioBuffers, sockOpen, outbound, runs, pulls, rxBytes,
                   nBinary, nOther, nDirect, faults, decoder, doRuns, acked>>

\* the "message" listener of the socket
ClientReceive(frame) ==
    /\ client.socket = "open"
    /\ client.nFrames < MaxFrames
    /\ LET c0 == [client EXCEPT !.nFrames = @ + 1]
       IN  client' =
             CASE frame.type = "delta" ->
                    [c0 EXCEPT !.chat = IF LastIsAssistant(c0)
                                        THEN [@ EXCEPT ![Len(@)].text = @ \o frame.content]
                                        ELSE @,
                               !.transcriptTimeout = FALSE]
               [] frame.type = "done" ->
                    Recovered([c0 EXCEPT !.chatHistory =
                        IF LastIsAssistant(c0)
                        THEN Append(@, Msg("assistant", c0.chat[Len(c0.chat)].text))
                        ELSE @])
               [] frame.type = "transcript" ->
                    LET c1 == [AddMessageToChat(c0, "user", frame.content)
                                  EXCEPT !.chatHistory = Append(@, Msg("user", frame.content))]
                    IN  [Processing(AddMessageToChat(c1, "assistant", ""))
                            EXCEPT !.transcriptTimeout = TRUE]
               [] frame.type = "error" ->
                    [Recovered(AddMessageToChat(c0, "assistant", "Error: " \o frame.content))
                        EXCEPT !.transcriptTimeout = FALSE]
               [] OTHER -> c0
    /\ UNCHANGED <<messages, audioBuffers, sockOpen, outbound, runs, pulls, rxBytes,
                   nBinary, nOther, nDirect, faults, decoder, doRuns, acked>>

\* the callback of the 30 s timer set on a transcript
TimeoutFires ==
    /\ client.transcriptTimeout
    /\ client' = [Recovered(AddMessageToChat(client, "assistant", "Error: response timed out."))
                     EXCEPT !.transcriptTimeout = FALSE]
    /\ UNCHANGED <<messages, audioBuffers, sockOpen, outbound, runs, pulls, rxBytes,
                   nBinary, nOther, nDirect, faults, decoder, doRuns, acked>>

\* the socket opens
SocketOpens ==
    /\ client.socket = "connecting"
    /\ client' = [client EXCEPT !.socket = "open"]
    /\ UNCHANGED <<messages, audioBuffers, sockOpen, outbound, runs, pulls, rxBytes,
                   nBinary, nOther, nDirect, faults, decoder, doRuns, acked>>

\* the socket closes
SocketCloses ==
    /\ client.socket = "open"
    /\ client' = [client EXCEPT !.socket = "closed"]
    /\ UNCHANGED <<messages, audioBuffers, sockOpen, outbound, runs, pulls, rxBytes,
                   nBinary, nOther, nDirect, faults, decoder, doRuns, acked>>

\* The page with a user who clicks and a server that may send any frame,
\* or none.
NextClient ==
    \/ \E message \in InputValues : SendMessage(message)
    \/ \E granted \in BOOLEAN : VoiceClick(granted)
    \/ RecorderData
    \/ RecorderStop
    \/ \E frame \in InboundFrames : ClientReceive(frame)
    \/ TimeoutFires
    \/ SocketOpens
    \/ SocketCloses

SpecClient == Init /\ [][NextClient]_vars

----------------------------------------------------------------------------
(* C17 *)

\* C17: stall recovery.  Whenever the page is in the processing state, a
\* step that ends it without a further frame from the server is pending:
\* the inactivity timer is armed, so the state is left even when the server
\* sends nothing more.
C17_StallRecovery ==
    (client.isProcessing /\ client.inputDisabled /\ client.typing) => ENABLED TimeoutFires

----------------------------------------------------------------------------
(* C18 *)

\* the bytes of all binary frames accepted on the connection: those that
\* preceded each audio_end frame and those received since the last one
BytesAccepted ==
    LET Ends == {h \in DOMAIN runs : runs[h].kind = "audio_end"}
        RECURSIVE Sum(_)
        Sum(S) == IF S = {} THEN 0
                  ELSE LET h == CHOOSE x \in S : TRUE
                       IN  runs[h].expect + Sum(S \ {h})
    IN  Sum(Ends) + rxBytes

\* the bytes stated by the transcripts sent so far
BytesCounted ==
    LET Told == {h \in DOMAIN runs : CountOf(h, "transcript") = 1}
        RECURSIVE Sum(_)
        Sum(S) == IF S = {} THEN 0
                  ELSE LET h == CHOOSE x \in S : TRUE
                       IN  runs[h].totalLen + Sum(S \ {h})
    IN  Sum(Told)

\* C18: no chunk is lost and none is counted twice: once every audio_end
\* received has sent its transcript and cleared the buffer, each byte
\* accepted on the connection is either counted in one transcript or still
\* in the buffer for the next audio_end.
C18_EveryChunkCountedOnce ==
    (\A h \in DOMAIN runs : ~(runs[h].kind = "audio_end" /\ runs[h].pc = "append_user"))
        => BytesCounted + SumSeq(audioBuffers) = BytesAccepted

----------------------------------------------------------------------------
(* C20 *)

\* The relay alone on a session whose log starts empty: pull requests and
\* the turns of one duplex connection, with failing collaborators.
NextRelay ==
    \/ \E body \in PullBodies : PullReceive(body)
    \/ \E p \in DOMAIN pulls, o \in DoOutcomes : PullAppendReturn(p, o)
    \/ \E p \in DOMAIN pulls, o \in DoOutcomes : PullGetMessagesReturn(p, o)
    \/ \E p \in DOMAIN pulls, o \in {"ok", "throw"} : PullAiRunReturn(p, o)
    \/ TurnFrames
    \/ Turn(AudioStreams)

SpecRelay == Init /\ [][NextRelay]_vars

\* C20: the default system prompt is never written to the session log:
\* the relay appends messages of role user or assistant only, so the log
\* holds no system message, while the histories passed to env.AI.run start
\* with the default prompt.
C20_SystemPromptNotPersisted ==
    /\ \A i \in DOMAIN messages : messages[i].role \in {"user", "assistant"}
    /\ \A h \in DOMAIN runs :
          runs[h].invoked => runs[h].hist[1] = Msg("system", SYSTEM_PROMPT)
    /\ \A p \in DOMAIN pulls :
          pulls[p].invoked => pulls[p].hist[1] = Msg("system", SYSTEM_PROMPT)

\* a pull request whose body starts with a system message, a user_message
\* turn and an audio_end turn have all called env.AI.run with the default
\* prompt, and the log holds user and assistant messages
C20_Witness ==
    /\ \E p \in DOMAIN pulls :
          /\ pulls[p].invoked
          /\ pulls[p].lastUser = << Msg("user", "Hi") >>
          /\ Len(pulls[p].hist) >= 2
    /\ \E h, g \in DOMAIN runs :
          /\ runs[h].kind = "user_message" /\ runs[h].pc = "finished"
          /\ runs[g].kind = "audio_end" /\ runs[g].pc = "finished"
    /\ \E i \in DOMAIN messages : messages[i].role = "assistant"
    /\ \E i \in DOMAIN messages : messages[i].role = "user"

----------------------------------------------------------------------------
(* C21 *)

\* the events run h has read from its stream so far, in order
ReadSoFar(h) == Flatten(SubSeq(runs[h].stream, 1, runs[h].pos))

\* the events that precede the first [DONE]
RECURSIVE BeforeDone(_)
BeforeDone(evs) ==
    IF evs = << >> \/ Head(evs) = EvDone THEN << >>
    ELSE << Head(evs) >> \o BeforeDone(Tail(evs))

\* C21: [DONE] ends the stream of the turn and carries no content: the
\* accumulated reply is the concatenation of the fragments of the events
\* read before the first [DONE], and no delta was sent for [DONE] or for
\* an event after it.
C21_DoneEndsStream ==
    \A h \in DOMAIN runs :
        LET kept == Fragments(<< BeforeDone(ReadSoFar(h)) >>)
        IN  /\ runs[h].assistantText = ConcatAll(kept)
            /\ Len(DeltaContents(h)) <= Len(kept)

----------------------------------------------------------------------------
(* C22 *)

\* C22: an event that JSON.parse rejects, or that has no content field,
\* yields no fragment and does not end the turn in error, and the content
\* events read after it are still added to the reply and sent as deltas; a
\* non-empty "response" is the fragment when both fields are present.
C22_MalformedNeverAborts ==
    \A h \in DOMAIN runs :
        LET frags == Fragments(SubSeq(runs[h].stream, 1, runs[h].pos))
        IN  /\ runs[h].assistantText = ConcatAll(frags)
            /\ sockOpen => DeltaContents(h) = frags
            /\ faults = 0 => (runs[h].pc # "failed" /\ CountOf(h, "error") = 0)

\* a turn has read a payload that is not JSON and, after it, an event with
\* both fields: the delta "ok" was sent, done followed, "ok" is in the log
C22_Witness ==
    \E h \in DOMAIN runs :
        /\ faults = 0
        /\ runs[h].pc = "finished"
        /\ \E i, j \in DOMAIN ReadSoFar(h) :
              i < j /\ ReadSoFar(h)[i] = EvBad /\ ReadSoFar(h)[j] = EvBoth("ok", "no")
        /\ DeltaContents(h) = << "ok" >>
        /\ runs[h].storedAt > 0
        /\ messages[runs[h].storedAt] = Msg("assistant", "ok")

----------------------------------------------------------------------------
(* C23 *)

\* the value of a data line with at most one leading space removed
StripOneSpace(s) == IF s # << >> /\ Head(s) = SP THEN Tail(s) ELSE s

\* the payload of a record by that rule: the values of its data lines,
\* joined with newlines
PayloadOf(rawEvent) ==
    LET marked == SelectSeq(SplitLines(rawEvent, << >>), StartsWithData)
    IN  JoinLines([i \in 1..Len(marked) |->
            StripOneSpace(SubSeq(marked[i], Len(DataMarker) + 1, Len(marked[i])))])

\* whether a record has a data line
HasDataLine(rawEvent) ==
    \E i \in DOMAIN SplitLines(rawEvent, << >>) :
        StartsWithData(SplitLines(rawEvent, << >>)[i])

\* the payloads of the complete records of a text without CR, in order
RECURSIVE ExpectedPayloads(_)
ExpectedPayloads(text) ==
    LET at == IndexOfSeparator(text, 1)
    IN  IF at = 0 THEN << >>
        ELSE LET rawEvent == SubSeq(text, 1, at - 1)
                 rest == SubSeq(text, at + 2, Len(text))
             IN  (IF HasDataLine(rawEvent) THEN << PayloadOf(rawEvent) >> ELSE << >>)
                     \o ExpectedPayloads(rest)

\* C23: the payload of a record is made of the values of its data: lines,
\* each with the marker and at most one following space removed and any
\* further leading white space kept, joined with newlines; a record with no
\* data: line yields no event.
C23_OneSpaceStripped ==
    decoder.flushed =>
        decoder.events = ExpectedPayloads(StripCR(decoder.input \o RecordSeparator))

----------------------------------------------------------------------------
(* C24 *)

\* the frames of a completed turn: the transcript of an audio_end, a delta
\* per fragment of the stream, done
CompleteFrames(h) ==
    (IF runs[h].kind = "audio_end"
     THEN << Frame("transcript", runs[h].content, h) >> ELSE << >>)
        \o ExpectedFrames(runs[h].stream, h)

\* with collaborators that do not fail and a client that stays, no turn
\* ends in the catch and a turn that has ended has sent all its frames
C24_Inv ==
    \A h \in DOMAIN runs :
        /\ runs[h].pc \notin {"failed", "unsent"}
        /\ runs[h].pc = "finished" => FramesOf(h) = CompleteFrames(h)

\* a binary frame adds its chunk at the end of the buffer and leaves the
\* outbound frames, the session log and every run as they are
C24_Step ==
    (\E size \in ChunkSizes : RecvBinary(size)) =>
        /\ \E size \in ChunkSizes : audioBuffers' = Append(audioBuffers, size)
        /\ UNCHANGED <<outbound, messages, runs, pulls>>

\* C24: a binary frame only appends its chunk to the audio buffer: it sends
\* no frame, leaves the log unchanged and starts no run (C24_Step), and a
\* turn in flight when it arrives is not interrupted or restarted: it still
\* sends its remaining deltas and its done (C24_Inv).
C24_BinaryOnlyBuffers == [](C24_Inv) /\ [][C24_Step]_vars

\* a user_message turn has sent "Hel", "lo" and done, a binary frame was
\* received while it was in flight, and its chunk is in the buffer
C24_Witness ==
    \E h \in DOMAIN runs :
        /\ runs[h].kind = "user_message"
        /\ runs[h].pc = "finished"
        /\ runs[h].overheard
        /\ DeltaContents(h) = << "Hel", "lo" >>
        /\ audioBuffers # << >>

----------------------------------------------------------------------------
(* C25 *)

\* C25: the page triggers no turn while it is in the processing state:
\* every user_message frame and every audio_end frame it put on the socket
\* was sent by a handler that began with isProcessing false.
C25_NoTriggerWhileProcessing ==
    \A i \in DOMAIN client.sent :
        client.sent[i].type \in {"user_message", "audio_end"}
            => ~client.sent[i].isProcessing

============================================================================
